---- MODULE Spec2Model ----
(***************************************************************************)
(* The aws_workmail_organization resource                                  *)
(* (internal/service/workmail/organization.go): its Create, Read, Delete   *)
(* and ImportState handlers, the two waiters and the status/finder         *)
(* helpers, run against a WorkMail back end whose answers are chosen       *)
(* nondeterministically.                                                   *)
(*                                                                         *)
(* A handler that waits is split at its blocking points: the call that     *)
(* starts it, then one step per poll of the waiter.  The step that ends    *)
(* the wait also runs the rest of the handler (diagnostics, State.Set).    *)
(* Handlers of the resource never overlap (one operation at a time); the   *)
(* back end moves between any two steps.                                   *)
(*                                                                         *)
(* The polling loop itself is retry.StateChangeConf.WaitForStateContext of *)
(* terraform-plugin-sdk/v2 (helper/retry/state.go), imported at            *)
(* organization.go:25 and configured at lines 216-223 and 234-239.         *)
(***************************************************************************)
EXTENDS Integers, Sequences, FiniteSets, TLC

\* ---------------------------------------------------------------- bounds
\* Number of organization ids the back end can hand out.
MaxOrgs == 2

Ids == 1..MaxOrgs

\* --------------------------------------------------------------- values
\* types.String null / unknown (terraform-plugin-framework attr values).
Null == "null"
Unknown == "unknown"

\* The configurations the practitioner may write: alias (required) and
\* description (optional, so possibly null).
Configs ==
    { [alias |-> "a", description |-> "d"],
      [alias |-> "b", description |-> Null] }

NoCfg == [alias |-> Null, description |-> Null]

ArnNames == <<"arn:1", "arn:2", "arn:3", "arn:4">>
\* The ARN the back end computes for an organization id.
ArnOf(id) == ArnNames[id]

statusCreating == "Creating"
statusDeleting == "Deleting"
statusActive == "Active"
statusDeleted == "Deleted"
\* A label outside the four the resource knows about.
statusOther == "Suspended"

Labels == {statusCreating, statusDeleting, statusActive, statusDeleted, statusOther}

NotFoundChecks == 20
ContinuousTargetOccurence == 2

\* Error kinds.
NoErr == "nil"
ErrNotFound == "NotFoundError"
ErrEmptyResult == "EmptyResultError"
ErrAPI == "APIError"
ErrTimeout == "TimeoutError"
ErrUnexpectedState == "UnexpectedStateError"
ErrCanceled == "ContextCanceled"
ErrEmptyOutput == "empty output"

\* The attributes of the timeouts object the schema declares:
\* timeouts.Opts{Create: true} (lines 81-83).
TimeoutsAttributes == {"create"}

\* The phases a timeouts block in a configuration may name, and the values
\* it may give them (Null: not given).
TimeoutPhases == {"create", "delete"}
TimeoutValues == {Null, "1m"}
TimeoutsConfigs == [TimeoutPhases -> TimeoutValues]
NoTimeoutsConfig == [a \in TimeoutPhases |-> Null]

\* Whether the schema accepts a timeouts block: every phase it gives a value
\* must be an attribute of the schema's timeouts object.
SchemaAccepts(tc) == \A a \in DOMAIN tc : tc[a] # Null => a \in TimeoutsAttributes

\* resourceOrganizationModel.Timeouts: the timeouts object as the schema
\* shapes it, null and read from a configuration.
NoTimeouts == [a \in TimeoutsAttributes |-> Null]
DecodeTimeouts(tc) == [a \in TimeoutsAttributes |-> tc[a]]

\* The defaults set at construction (lines 51 and 53), and the timeouts the
\* handlers pass to their waiters: the object's value for the phase when it
\* has one, the default otherwise.
DefaultCreateTimeout == "10m"
DefaultDeleteTimeout == "10m"

CreateTimeout(t) ==
    IF "create" \in DOMAIN t /\ t["create"] # Null THEN t["create"] ELSE DefaultCreateTimeout

DeleteTimeout(t) ==
    IF "delete" \in DOMAIN t /\ t["delete"] # Null THEN t["delete"] ELSE DefaultDeleteTimeout

\* resourceOrganizationModel: the record kept in Terraform state.
NoState == [present |-> FALSE, id |-> 0, alias |-> Null, description |-> Null, arn |-> Null,
            timeouts |-> NoTimeouts]

resourceOrganizationModel(id, alias, description, arn) ==
    [present |-> TRUE, id |-> id, alias |-> alias, description |-> description, arn |-> arn,
     timeouts |-> NoTimeouts]

\* A remote organization slot: never allocated, present, or purged.
NoOrg == [exists |-> "unallocated", alias |-> Null, description |-> Null]
PurgedOrg == [exists |-> "purged", alias |-> Null, description |-> Null]

NoOut == [OrganizationId |-> 0, ARN |-> Null, Alias |-> Null, Description |-> Null, State |-> ""]

\* ------------------------------------------------------- remote back end
\* The back end stores, per id, the alias and description given at creation;
\* the ARN follows from the id.  The State it reports is not stored: the
\* back end moves an organization through its life cycle on its own and is
\* eventually consistent, so each DescribeOrganization may report any label.
\*
\* What DescribeOrganization may answer for id: the entity with some State,
\* ResourceNotFoundException (always possible: the entity is absent, or the
\* read is served before the entity is visible), another API error, or a
\* response without OrganizationId.
DescribeResponses(store, id) ==
    LET org == IF id \in Ids THEN store[id] ELSE NoOrg
        out(l) == [OrganizationId |-> id, ARN |-> ArnOf(id), Alias |-> org.alias,
                   Description |-> org.description, State |-> l]
    IN  { [kind |-> "ResourceNotFoundException", out |-> NoOut],
          [kind |-> "error", out |-> NoOut] }
        \cup ( IF org.exists = "present"
               THEN { [kind |-> "ok", out |-> out(l)] : l \in Labels }
                    \cup { [kind |-> "ok", out |-> [out(statusActive) EXCEPT !.OrganizationId = 0]] }
               ELSE {} )

\* What CreateOrganization may answer: an error before anything was applied,
\* or, when an id is left to hand out, success, a response without
\* OrganizationId, or an error after the request was applied.
CreateResponses(store) ==
    { [kind |-> "error", applied |-> FALSE] }
    \cup ( IF \E i \in Ids : store[i].exists = "unallocated"
           THEN { [kind |-> k, applied |-> TRUE] : k \in {"ok", "empty", "error"} }
           ELSE {} )

\* The id the back end hands out next.
FreshId(store) ==
    CHOOSE i \in Ids : /\ store[i].exists = "unallocated"
                       /\ \A j \in Ids : store[j].exists = "unallocated" => i <= j

\* The store after CreateOrganization(alias, description) was applied.
Created(store, cfg) ==
    [store EXCEPT ![FreshId(store)] =
        [exists |-> "present", alias |-> cfg.alias, description |-> cfg.description]]

\* sdkid.UniqueId() (line 112): a token no earlier request carried. The back
\* end keeps the token of an applied request with the entity it created, so
\* a token is named by the slot its request fills when applied: a fresh
\* token is the first unallocated slot (0 when no slot is left).
UniqueId(store) ==
    IF \E i \in Ids : store[i].exists = "unallocated" THEN FreshId(store) ELSE 0

\* CreateOrganization(alias, description, ClientToken) once it reaches the
\* back end: a request whose token an entity was already created with
\* returns that entity and creates nothing; any other request creates a new
\* entity.
CreateOrganization(store, cfg, token) ==
    IF token \in Ids /\ store[token].exists # "unallocated"
    THEN [store |-> store, id |-> token]
    ELSE [store |-> Created(store, cfg), id |-> FreshId(store)]

\* What DeleteOrganization may answer for id.
DeleteResponses(store, id) ==
    { "error" } \cup ( IF id \in Ids /\ store[id].exists = "present"
                       THEN { "ok" }
                       ELSE { "ResourceNotFoundException" } )

\* --------------------------------------------------------------- helpers
\* tfresource.NotFound: whether err is a not-found condition.
NotFound(err) == err = ErrNotFound

\* findOrganizationByID without lines 282-284: a response without
\* OrganizationId is returned as found.
findOrganizationByID_NoEmptyCheck(resp) ==
    IF resp.kind = "ResourceNotFoundException"
    THEN [out |-> NoOut, err |-> ErrNotFound]
    ELSE IF resp.kind # "ok"
    THEN [out |-> NoOut, err |-> ErrAPI]
    ELSE [out |-> resp.out, err |-> NoErr]

\* findOrganizationByID applied to the DescribeOrganization response.
findOrganizationByID(resp) ==
    IF resp.kind = "ResourceNotFoundException"
    THEN [out |-> NoOut, err |-> ErrNotFound]
    ELSE IF resp.kind # "ok"
    THEN [out |-> NoOut, err |-> ErrAPI]
    ELSE IF resp.out.OrganizationId = 0
    THEN [out |-> NoOut, err |-> ErrEmptyResult]
    ELSE [out |-> resp.out, err |-> NoErr]

\* statusOrganization without lines 257-259: every fetch error is taken for
\* not-found.
statusOrganization_SwallowsErrors(resp) ==
    LET f == findOrganizationByID(resp)
    IN  IF f.err # NoErr
        THEN [found |-> FALSE, state |-> "", err |-> NoErr]
        ELSE [found |-> TRUE, state |-> f.out.State, err |-> NoErr]

\* statusOrganization without lines 253-255: not-found is returned to the
\* polling loop as an error.
statusOrganization_NotFoundIsError(resp) ==
    LET f == findOrganizationByID(resp)
    IN  IF f.err # NoErr
        THEN [found |-> FALSE, state |-> "", err |-> f.err]
        ELSE [found |-> TRUE, state |-> f.out.State, err |-> NoErr]

\* The refresh function statusOrganization returns: (result, state, error);
\* found is FALSE where the Go code returns a nil result.
statusOrganization(resp) ==
    LET f == findOrganizationByID(resp)
    IN  IF NotFound(f.err)
        THEN [found |-> FALSE, state |-> "", err |-> NoErr]
        ELSE IF f.err # NoErr
        THEN [found |-> FALSE, state |-> "", err |-> f.err]
        ELSE [found |-> TRUE, state |-> f.out.State, err |-> NoErr]

\* waitOrganizationCreated whose target set also holds Creating.
waitOrganizationCreatedConf_TargetCreating ==
    [ Pending |-> {}, Target |-> {statusCreating, statusActive},
      NotFoundChecks |-> NotFoundChecks,
      ContinuousTargetOccurence |-> ContinuousTargetOccurence ]

\* waitOrganizationDeleted that waits for the organization to be absent: no
\* target state.
waitOrganizationDeletedConf_TargetAbsent ==
    [ Pending |-> {statusDeleting, statusActive}, Target |-> {},
      NotFoundChecks |-> 0, ContinuousTargetOccurence |-> 0 ]

\* waitOrganizationDeleted whose pending set leaves out Active.
waitOrganizationDeletedConf_PendingDeleting ==
    [ Pending |-> {statusDeleting}, Target |-> {statusDeleted},
      NotFoundChecks |-> 0, ContinuousTargetOccurence |-> 0 ]

\* The StateChangeConf of each waiter; 0 is Go's zero value of a field the
\* literal leaves out.
waitOrganizationCreatedConf ==
    [ Pending |-> {statusCreating}, Target |-> {statusActive},
      NotFoundChecks |-> NotFoundChecks,
      ContinuousTargetOccurence |-> ContinuousTargetOccurence ]

waitOrganizationDeletedConf ==
    [ Pending |-> {statusDeleting, statusActive}, Target |-> {statusDeleted},
      NotFoundChecks |-> 0, ContinuousTargetOccurence |-> 0 ]

\* WaitForStateContext's defaults for the fields left at zero.
EffectiveConf(conf) ==
    [ conf EXCEPT
        !.NotFoundChecks = IF @ = 0 THEN 20 ELSE @,
        !.ContinuousTargetOccurence = IF @ = 0 THEN 1 ELSE @ ]

\* The refresh loop with the not-found overflow reported as a TimeoutError.
WaitForStateStep_NotFoundAsTimeout(conf0, notfoundTick, targetOccurence, r) ==
    LET conf == EffectiveConf(conf0)
        cont(nf, to) == [done |-> FALSE, err |-> NoErr, notfoundTick |-> nf, targetOccurence |-> to]
        stop(e, nf, to) == [done |-> TRUE, err |-> e, notfoundTick |-> nf, targetOccurence |-> to]
    IN  IF r.err # NoErr
        THEN stop(r.err, notfoundTick, targetOccurence)
        ELSE IF ~r.found /\ conf.Target = {}
        THEN IF conf.ContinuousTargetOccurence = targetOccurence + 1
             THEN stop(NoErr, notfoundTick, targetOccurence + 1)
             ELSE cont(notfoundTick, targetOccurence + 1)
        ELSE IF ~r.found
        THEN IF notfoundTick + 1 > conf.NotFoundChecks
             THEN stop(ErrTimeout, notfoundTick + 1, targetOccurence)
             ELSE cont(notfoundTick + 1, targetOccurence)
        ELSE IF r.state \in conf.Target /\ conf.ContinuousTargetOccurence = targetOccurence + 1
        THEN stop(NoErr, 0, targetOccurence + 1)
        ELSE LET to1 == IF r.state \in conf.Target THEN targetOccurence + 1 ELSE targetOccurence
                 to2 == IF r.state \in conf.Pending THEN 0 ELSE to1
             IN  IF r.state \notin conf.Target /\ r.state \notin conf.Pending /\ conf.Pending # {}
                 THEN stop(ErrUnexpectedState, 0, to2)
                 ELSE cont(0, to2)

\* One iteration of WaitForStateContext's refresh loop: from the counters
\* (notfoundTick, targetOccurence) and the refresh result r to the new
\* counters, whether the loop ends, and with which error.
WaitForStateStep(conf0, notfoundTick, targetOccurence, r) ==
    LET conf == EffectiveConf(conf0)
        cont(nf, to) == [done |-> FALSE, err |-> NoErr, notfoundTick |-> nf, targetOccurence |-> to]
        stop(e, nf, to) == [done |-> TRUE, err |-> e, notfoundTick |-> nf, targetOccurence |-> to]
    IN  IF r.err # NoErr
        THEN stop(r.err, notfoundTick, targetOccurence)
        ELSE IF ~r.found /\ conf.Target = {}
        THEN IF conf.ContinuousTargetOccurence = targetOccurence + 1
             THEN stop(NoErr, notfoundTick, targetOccurence + 1)
             ELSE cont(notfoundTick, targetOccurence + 1)
        ELSE IF ~r.found
        THEN IF notfoundTick + 1 > conf.NotFoundChecks
             THEN stop(ErrNotFound, notfoundTick + 1, targetOccurence)
             ELSE cont(notfoundTick + 1, targetOccurence)
        ELSE IF r.state \in conf.Target /\ conf.ContinuousTargetOccurence = targetOccurence + 1
        THEN stop(NoErr, 0, targetOccurence + 1)
        ELSE LET to1 == IF r.state \in conf.Target THEN targetOccurence + 1 ELSE targetOccurence
                 to2 == IF r.state \in conf.Pending THEN 0 ELSE to1
             IN  IF r.state \notin conf.Target /\ r.state \notin conf.Pending /\ conf.Pending # {}
                 THEN stop(ErrUnexpectedState, 0, to2)
                 ELSE cont(0, to2)

\* ------------------------------------------------------ handler pieces
\* req.Plan.Get in Create: the planned record; the computed id and arn are
\* unknown until the provider sets them (an unknown id reads as "", here 0).
PlanOf(cfg) == [present |-> TRUE, id |-> 0, alias |-> cfg.alias,
                description |-> cfg.description, arn |-> Unknown, timeouts |-> NoTimeouts]

\* flex.Flatten(ctx, out, &plan) on the CreateOrganization output, whose only
\* field is the assigned OrganizationId.
FlattenCreateOutput(id, plan) == [plan EXCEPT !.id = id]

\* flex.Flatten(ctx, out, &state) on the DescribeOrganization output: the
\* fields of the model the output also has (ARN, Alias, Description).
FlattenDescribeOutput(out, state) ==
    [state EXCEPT !.arn = out.ARN, !.alias = out.Alias, !.description = out.Description]

\* Create up to the wait (lines 114-127): the diagnostics and the plan after
\* the CreateOrganization response; wait says whether the waiter starts.
CreateCall(plan, resp, id) ==
    IF resp.kind = "error"
    THEN [wait |-> FALSE, err |-> ErrAPI, plan |-> plan]
    ELSE IF resp.kind = "empty"
    THEN [wait |-> FALSE, err |-> ErrEmptyOutput, plan |-> plan]
    ELSE [wait |-> TRUE, err |-> NoErr, plan |-> FlattenCreateOutput(id, plan)]

\* Create without the return at line 133: the plan is written even when the
\* wait failed.
CreateTail_NoReturnOnError(plan, err) ==
    [state |-> plan, diag |-> IF err # NoErr THEN "error" ELSE "ok", deleteCall |-> FALSE]

\* Create that cleans up after a failed wait: it sends DeleteOrganization
\* for the id it was given before it returns the error.
CreateTail_DeletesOnError(plan, err) ==
    IF err # NoErr
    THEN [state |-> NoState, diag |-> "error", deleteCall |-> TRUE]
    ELSE [state |-> plan, diag |-> "ok", deleteCall |-> FALSE]

\* Create after the wait (lines 131-136): an error is reported and nothing is
\* written; otherwise the plan becomes the state. deleteCall: whether a
\* DeleteOrganization request is sent; there is none on either path.
CreateTail(plan, err) ==
    IF err # NoErr
    THEN [state |-> NoState, diag |-> "error", deleteCall |-> FALSE]
    ELSE [state |-> plan, diag |-> "ok", deleteCall |-> FALSE]

\* Read that refreshes only the computed arn and the alias and leaves the
\* configured description as it is in state.
ReadResult_KeepsDescription(state, resp) ==
    LET f == findOrganizationByID(resp)
    IN  IF NotFound(f.err)
        THEN [state |-> NoState, diag |-> "warning", err |-> f.err]
        ELSE IF f.err # NoErr
        THEN [state |-> state, diag |-> "error", err |-> f.err]
        ELSE [state |-> [FlattenDescribeOutput(f.out, state) EXCEPT !.description = state.description],
              diag |-> "ok", err |-> NoErr]

\* Read without lines 151-155: not-found is an error like any other and the
\* record stays.
ReadResult_NotFoundIsError(state, resp) ==
    LET f == findOrganizationByID(resp)
    IN  IF f.err # NoErr
        THEN [state |-> state, diag |-> "error", err |-> f.err]
        ELSE [state |-> FlattenDescribeOutput(f.out, state), diag |-> "ok", err |-> NoErr]

\* Read (lines 150-167) on the DescribeOrganization response.
ReadResult(state, resp) ==
    LET f == findOrganizationByID(resp)
    IN  IF NotFound(f.err)
        THEN [state |-> NoState, diag |-> "warning", err |-> f.err]
        ELSE IF f.err # NoErr
        THEN [state |-> state, diag |-> "error", err |-> f.err]
        ELSE [state |-> FlattenDescribeOutput(f.out, state), diag |-> "ok", err |-> NoErr]

\* Delete without lines 186-188: ResourceNotFoundException is reported like
\* any other error.
DeleteCall_NotFoundIsError(state, resp) ==
    IF resp # "ok"
    THEN [wait |-> FALSE, state |-> state, diag |-> "error", err |-> ErrAPI]
    ELSE [wait |-> TRUE, state |-> state, diag |-> "ok", err |-> NoErr]

\* Delete up to the wait (lines 184-192) on the DeleteOrganization response.
\* With no error diagnostic the framework removes the record from state.
DeleteCall(state, resp) ==
    IF resp = "ResourceNotFoundException"
    THEN [wait |-> FALSE, state |-> NoState, diag |-> "ok", err |-> NoErr]
    ELSE IF resp # "ok"
    THEN [wait |-> FALSE, state |-> state, diag |-> "error", err |-> ErrAPI]
    ELSE [wait |-> TRUE, state |-> state, diag |-> "ok", err |-> NoErr]

\* Delete without lines 196-199: the wait's error is dropped.
DeleteTail_IgnoresError(state, err) ==
    [state |-> NoState, diag |-> "ok"]

\* Delete after the wait (lines 195-199).
DeleteTail(state, err) ==
    IF err # NoErr
    THEN [state |-> state, diag |-> "error"]
    ELSE [state |-> NoState, diag |-> "ok"]

\* ImportStatePassthroughID: the id is stored as given, every other
\* attribute is null until the next Read.
ImportResult(id) == resourceOrganizationModel(id, Null, Null, Null)

\* The plan without RequiresReplace on alias: a different alias is applied
\* to the resource without destroying it first.
PlanAction_NoRequiresReplace(state, cfg) ==
    IF ~state.present \/ state.alias # cfg.alias THEN "create" ELSE "noop"

\* What the host plans for a configuration: alias carries RequiresReplace
\* (lines 75-80), so a different alias replaces the resource.
PlanAction(state, cfg) ==
    IF ~state.present THEN "create"
    ELSE IF state.alias # cfg.alias THEN "replace"
    ELSE "noop"

\* What a DescribeOrganization response shows: not found, an API error, a
\* response without id, or the State label.
ObsOf(resp) ==
    IF resp.kind = "ResourceNotFoundException" THEN "notfound"
    ELSE IF resp.kind # "ok" THEN "error"
    ELSE IF resp.out.OrganizationId = 0 THEN "empty"
    ELSE resp.out.State

\* ----------------------------------------------------------------- state
VARIABLES
    remote,     \* the back end's store: id -> organization slot
    tfstate,    \* the resource's record in Terraform state
    op,         \* the handler in progress and its waiter's counters
    last,       \* how the last finished handler ended
    nfDeletes,  \* history: the id last deleted while absent, and how often in
                \* a row (with nothing but ImportState in between)
    baseline,   \* history: id -> the record after Create of that id, then
                \* Read, for as long as the entity exists
    timeoutsCfg \* the timeouts block of the resource's configuration

vars == <<remote, tfstate, op, last, nfDeletes, baseline, timeoutsCfg>>

\* timeout: the timeout the waiter in progress was started with.
Idle == [kind |-> "idle", plan |-> NoState, next |-> NoCfg,
         notfoundTick |-> 0, targetOccurence |-> 0, prevObs |-> "none", timeout |-> Null]

\* op: the handler; diag: "ok", "warning" or "error"; err: its error; call:
\* what the handler's own API call answered; waited: whether a waiter ran;
\* prevObs, lastObs: what the waiter's last two polls showed; id: the
\* organization id; cfg: the configuration created (for Read: by the
\* successful Create right before it); after: the handler right before;
\* deleteCall: whether the handler sent a DeleteOrganization request.
NoLast == [op |-> "none", diag |-> "ok", err |-> NoErr, call |-> "none", waited |-> FALSE,
           prevObs |-> "none", lastObs |-> "none", id |-> 0, cfg |-> NoCfg, after |-> "none",
           deleteCall |-> FALSE]

Ended(o, diag, err, call, waited, prevObs, lastObs, id, cfg) ==
    [op |-> o, diag |-> diag, err |-> err, call |-> call, waited |-> waited,
     prevObs |-> prevObs, lastObs |-> lastObs, id |-> id, cfg |-> cfg, after |-> "none",
     deleteCall |-> (o = "delete")]

\* How often in a row a Delete of an absent id is counted.
MaxRepeat == 2

Init ==
    /\ remote = [i \in Ids |-> NoOrg]
    /\ tfstate = NoState
    /\ op = Idle
    /\ last = NoLast
    /\ nfDeletes = [id |-> 0, n |-> 0]
    /\ baseline = [i \in Ids |-> NoState]
    /\ timeoutsCfg = NoTimeoutsConfig

\* The same start with any timeouts block in the configuration.
InitT ==
    /\ remote = [i \in Ids |-> NoOrg]
    /\ tfstate = NoState
    /\ op = Idle
    /\ last = NoLast
    /\ nfDeletes = [id |-> 0, n |-> 0]
    /\ baseline = [i \in Ids |-> NoState]
    /\ timeoutsCfg \in TimeoutsConfigs

\* --------------------------------------------------------------- actions
\* resourceOrganization.Create, lines 88-127: called for a planned creation,
\* or as the second half of a replacement.
Create(cfg, resp) ==
    /\ SchemaAccepts(timeoutsCfg)
    /\ \/ op.kind = "idle" /\ PlanAction(tfstate, cfg) = "create"
       \/ op.kind = "recreate" /\ cfg = op.next
    /\ resp \in CreateResponses(remote)
    /\ LET applied == CreateOrganization(remote, cfg, UniqueId(remote))
           id == IF resp.applied THEN applied.id ELSE 0
           plan == [PlanOf(cfg) EXCEPT !.timeouts = DecodeTimeouts(timeoutsCfg)]
           c == CreateCall(plan, resp, id)
       IN  /\ remote' = IF resp.applied THEN applied.store ELSE remote
           /\ IF c.wait
              THEN /\ op' = [Idle EXCEPT !.kind = "create", !.plan = c.plan,
                                          !.timeout = CreateTimeout(c.plan.timeouts)]
                   /\ last' = NoLast
              ELSE /\ op' = Idle
                   /\ last' = Ended("create", "error", c.err, resp.kind, FALSE, "none", "none", id, cfg)
           /\ nfDeletes' = [id |-> 0, n |-> 0]
           /\ UNCHANGED <<tfstate, baseline, timeoutsCfg>>

\* resourceOrganization.Read, lines 139-168.
Read(resp) ==
    /\ SchemaAccepts(timeoutsCfg)
    /\ op.kind = "idle"
    /\ tfstate.present
    /\ resp \in DescribeResponses(remote, tfstate.id)
    /\ LET r == ReadResult(tfstate, resp)
           created == last.op = "create" /\ last.diag = "ok"
       IN  /\ tfstate' = r.state
           /\ last' = [Ended("read", r.diag, r.err, ObsOf(resp), FALSE, "none", "none", tfstate.id,
                              IF created THEN last.cfg ELSE NoCfg)
                          EXCEPT !.after = IF created THEN "create" ELSE last.op]
           /\ baseline' = IF created /\ r.diag = "ok"
                          THEN [baseline EXCEPT ![tfstate.id] = r.state]
                          ELSE baseline
    /\ nfDeletes' = [id |-> 0, n |-> 0]
    /\ UNCHANGED <<remote, op, timeoutsCfg>>

\* resourceOrganization.Delete, lines 170-192: called to destroy the
\* resource (next = NoCfg) or as the first half of a replacement by next.
Delete(next, resp) ==
    /\ SchemaAccepts(timeoutsCfg)
    /\ op.kind = "idle"
    /\ tfstate.present
    /\ \/ next = NoCfg
       \/ next \in Configs /\ PlanAction(tfstate, next) = "replace"
    /\ resp \in DeleteResponses(remote, tfstate.id)
    /\ LET d == DeleteCall(tfstate, resp)
       IN  /\ tfstate' = d.state
           /\ IF d.wait
              THEN /\ op' = [Idle EXCEPT !.kind = "delete", !.next = next,
                                          !.timeout = DeleteTimeout(tfstate.timeouts)]
                   /\ last' = NoLast
              ELSE /\ op' = IF d.err = NoErr /\ next # NoCfg
                            THEN [Idle EXCEPT !.kind = "recreate", !.next = next]
                            ELSE Idle
                   /\ last' = Ended("delete", d.diag, d.err, resp, FALSE, "none", "none", tfstate.id, next)
    /\ nfDeletes' = IF resp = "ResourceNotFoundException"
                    THEN [id |-> tfstate.id,
                          n |-> IF nfDeletes.id = tfstate.id /\ nfDeletes.n < MaxRepeat
                                THEN nfDeletes.n + 1
                                ELSE IF nfDeletes.id = tfstate.id THEN MaxRepeat ELSE 1]
                    ELSE [id |-> 0, n |-> 0]
    /\ UNCHANGED <<remote, baseline, timeoutsCfg>>

\* resourceOrganization.ImportState, lines 202-204.
ImportState(id) ==
    /\ SchemaAccepts(timeoutsCfg)
    /\ op.kind = "idle"
    /\ ~tfstate.present
    /\ tfstate' = ImportResult(id)
    /\ last' = Ended("import", "ok", NoErr, "none", FALSE, "none", "none", id, NoCfg)
    /\ UNCHANGED <<remote, op, nfDeletes, baseline, timeoutsCfg>>

\* The end of a wait with error err (NoErr: the target was reached), and the
\* rest of the handler that was waiting.
Finish(err, lastObs) ==
    IF op.kind = "create"
    THEN LET t == CreateTail(op.plan, err)
         IN  /\ tfstate' = t.state
             /\ op' = Idle
             /\ last' = [Ended("create", t.diag, err, "ok", TRUE, op.prevObs, lastObs, op.plan.id,
                               [alias |-> op.plan.alias, description |-> op.plan.description])
                           EXCEPT !.deleteCall = t.deleteCall]
    ELSE LET t == DeleteTail(tfstate, err)
         IN  /\ tfstate' = t.state
             /\ op' = IF err = NoErr /\ op.next # NoCfg
                      THEN [Idle EXCEPT !.kind = "recreate", !.next = op.next]
                      ELSE Idle
             /\ last' = Ended("delete", t.diag, err, "ok", TRUE, op.prevObs, lastObs, tfstate.id, op.next)

\* The id the waiter in progress polls: plan.ID in Create (line 130),
\* state.ID in Delete (line 195).
PollId == IF op.kind = "create" THEN op.plan.id ELSE tfstate.id

\* One poll of waitOrganizationCreated (lines 215-231) or
\* waitOrganizationDeleted (lines 233-247).
WaitPoll(resp) ==
    /\ op.kind \in {"create", "delete"}
    /\ resp \in DescribeResponses(remote, PollId)
    /\ LET conf == IF op.kind = "create" THEN waitOrganizationCreatedConf
                   ELSE waitOrganizationDeletedConf
           r == statusOrganization(resp)
           s == WaitForStateStep(conf, op.notfoundTick, op.targetOccurence, r)
       IN  IF s.done
           THEN Finish(s.err, ObsOf(resp))
           ELSE /\ op' = [op EXCEPT !.notfoundTick = s.notfoundTick,
                                    !.targetOccurence = s.targetOccurence,
                                    !.prevObs = ObsOf(resp)]
                /\ UNCHANGED <<tfstate, last>>
    /\ UNCHANGED <<remote, nfDeletes, baseline, timeoutsCfg>>

\* A waiter whose timeout never elapses.
WaitTimeout_NeverElapses ==
    /\ op.kind \in {"create", "delete"}
    /\ UNCHANGED vars

\* The waiter's timeout elapses before the target is reached.
WaitTimeout ==
    /\ op.kind \in {"create", "delete"}
    /\ Finish(ErrTimeout, "timeout")
    /\ UNCHANGED <<remote, nfDeletes, baseline, timeoutsCfg>>

\* The caller's context is cancelled during the wait.
WaitCancel ==
    /\ op.kind \in {"create", "delete"}
    /\ Finish(ErrCanceled, "cancel")
    /\ UNCHANGED <<remote, nfDeletes, baseline, timeoutsCfg>>

\* The back end purges an organization (deleted outside of the program, or
\* at the end of its own deletion).
RemotePurge(id) ==
    /\ remote[id].exists = "present"
    /\ remote' = [remote EXCEPT ![id] = PurgedOrg]
    /\ baseline' = [baseline EXCEPT ![id] = NoState]
    /\ UNCHANGED <<tfstate, op, last, nfDeletes, timeoutsCfg>>

Next ==
    \/ \E cfg \in Configs : \E resp \in CreateResponses(remote) : Create(cfg, resp)
    \/ \E resp \in DescribeResponses(remote, tfstate.id) : Read(resp)
    \/ \E next \in Configs \cup {NoCfg} : \E resp \in DeleteResponses(remote, tfstate.id) : Delete(next, resp)
    \/ \E id \in Ids : ImportState(id)
    \/ \E resp \in DescribeResponses(remote, PollId) : WaitPoll(resp)
    \/ WaitTimeout
    \/ WaitCancel
    \/ \E id \in Ids : RemotePurge(id)

Spec == Init /\ [][Next]_vars

\* The program under any timeouts block in its configuration.
SpecT == InitT /\ [][Next]_vars

\* The program with time passing: the timeout of a wait in progress (10
\* minutes by default, lines 51-53) elapses unless the wait ends before.
SpecLive == Spec /\ WF_vars(WaitTimeout)

\* ---------------------------------------------------------------- claims

\* C1: waitOrganizationCreated declares success only after Active was seen
\* on two consecutive polls: when Create's wait ends with success, the last
\* two polls both showed Active.
C1_TwoConsecutiveActive ==
    (last.op = "create" /\ last.waited /\ last.err = NoErr)
        => (last.prevObs = statusActive /\ last.lastObs = statusActive)

\* C2: when Create's wait ends with an error (a TimeoutError when the timeout
\* elapsed), Create reports the error and the state holds no record.
C2_NoPartialState ==
    /\ (last.op = "create" /\ last.waited /\ last.err # NoErr)
           => (last.diag = "error" /\ tfstate = NoState)
    /\ (last.op = "create" /\ last.lastObs = "timeout")
           => (last.err = ErrTimeout /\ last.diag = "error" /\ tfstate = NoState)

\* The timeout elapsed while the organization was still Creating.
C2_Witness ==
    /\ last.op = "create" /\ last.waited
    /\ last.prevObs = statusCreating /\ last.lastObs = "timeout"
    /\ last.err = ErrTimeout /\ last.diag = "error"
    /\ tfstate = NoState

\* C3: when DeleteOrganization reports not-found, Delete ends with success
\* and no error, starts no wait, and the record is gone; however often the
\* Delete of that id is repeated.
C3_DeleteAbsentIdempotent ==
    (last.op = "delete" /\ last.call = "ResourceNotFoundException")
        => /\ last.diag = "ok" /\ last.err = NoErr
           /\ ~last.waited
           /\ op.kind # "delete"
           /\ tfstate = NoState

\* The same absent id was deleted MaxRepeat times in a row, with success.
C3_Witness ==
    /\ last.op = "delete" /\ last.call = "ResourceNotFoundException"
    /\ last.diag = "ok"
    /\ nfDeletes.id = last.id /\ nfDeletes.n >= MaxRepeat

\* C4: when Read's fetch reports not-found, Read removes the record and
\* reports no error, so that the next plan is a Create; when the fetch finds
\* the entity, Read overwrites alias, description and arn with the remote
\* values (compared while the entity still exists) and keeps the id.
C4_ReadDropsOrRefreshes ==
    /\ (last.op = "read" /\ last.call = "notfound")
           => /\ tfstate = NoState
              /\ last.diag # "error"
              /\ \A cfg \in Configs : PlanAction(tfstate, cfg) = "create"
    /\ (last.op = "read" /\ last.call \in Labels)
           => /\ last.diag = "ok"
              /\ tfstate.present /\ tfstate.id = last.id
              /\ remote[last.id].exists = "present"
                     => /\ tfstate.alias = remote[last.id].alias
                        /\ tfstate.description = remote[last.id].description
                        /\ tfstate.arn = ArnOf(last.id)

\* The entity was created by the program, purged outside of it, and the
\* Read that followed dropped the record.
C4_Witness ==
    /\ last.op = "read" /\ last.call = "notfound" /\ last.after = "create"
    /\ remote[last.id].exists = "purged"
    /\ tfstate = NoState

\* C5: in waitOrganizationDeleted a poll that reports not-found ends the wait
\* at once with success: the wait never goes on after such a poll, and a wait
\* that ends on one ends without an error.
C5_NotFoundEndsDeleteWait ==
    /\ op.kind = "delete" => op.prevObs # "notfound"
    /\ (last.op = "delete" /\ last.waited /\ last.lastObs = "notfound")
           => (last.err = NoErr /\ last.diag = "ok")

\* C6: a fetch error that is not not-found aborts either wait at that poll:
\* no wait goes on after such a poll, and the wait that ends on one returns
\* the error, which the handler reports.
C6_FetchErrorAborts ==
    /\ op.kind \in {"create", "delete"} => op.prevObs # "error"
    /\ (last.waited /\ last.lastObs = "error")
           => (last.err = ErrAPI /\ last.diag = "error")

\* A deletion wait that had seen Deleting ended on a fetch error.
C6_Witness ==
    /\ last.op = "delete" /\ last.waited
    /\ last.prevObs = statusDeleting /\ last.lastObs = "error"
    /\ last.err = ErrAPI /\ tfstate.present

\* C7: after every successful Create the record's id and arn are the remote
\* entity's id and ARN.
C7_CreatePersistsArn ==
    (last.op = "create" /\ last.diag = "ok")
        => (tfstate.present /\ tfstate.id = last.id /\ tfstate.arn = ArnOf(last.id))

\* C8: Create returns success only when its last poll showed Active (never
\* while the entity is reported Creating), the record it writes carries the
\* input alias, and the record a Read right after it returns carries the
\* input alias too.
C8_CreateThenRead ==
    /\ (last.op = "create" /\ last.diag = "ok")
           => /\ last.lastObs = statusActive
              /\ tfstate.present /\ tfstate.alias = last.cfg.alias
    /\ (last.op = "read" /\ last.after = "create" /\ last.diag = "ok")
           => /\ tfstate.present /\ tfstate.alias = last.cfg.alias
              /\ tfstate.id = last.id

\* A Read right after a successful Create of alias "b" found the entity.
C8_Witness ==
    /\ last.op = "read" /\ last.after = "create" /\ last.diag = "ok"
    /\ last.cfg.alias = "b" /\ tfstate.alias = "b"

\* C9: ImportState stores the given id and nothing else, and the record a
\* Read right after it returns has the alias, description and arn of the
\* record that Create followed by Read produced for that entity.
C9_ImportThenRead ==
    /\ last.op = "import" => tfstate = resourceOrganizationModel(last.id, Null, Null, Null)
    /\ (last.op = "read" /\ last.after = "import" /\ last.diag = "ok"
            /\ baseline[last.id].present)
           => /\ tfstate.id = last.id
              /\ tfstate.alias = baseline[last.id].alias
              /\ tfstate.description = baseline[last.id].description
              /\ tfstate.arn = baseline[last.id].arn

\* An entity created with a description was read back, later imported by its
\* id and read again.
C9_Witness ==
    /\ last.op = "read" /\ last.after = "import" /\ last.diag = "ok"
    /\ baseline[last.id].present /\ baseline[last.id].description = "d"
    /\ tfstate = baseline[last.id]

\* C10: no step changes the alias of a record that has one (a record is
\* only removed, never rewritten with another alias), and Create starts only
\* when no record exists: a changed alias is served by Delete, then Create.
C10_AliasImmutable ==
    [][ /\ (tfstate.present /\ tfstate.alias # Null /\ tfstate'.present)
               => tfstate'.alias = tfstate.alias
        /\ (op.kind # "create" /\ op'.kind = "create") => ~tfstate.present
        /\ (op.kind = "idle" /\ op'.next # NoCfg)
               => (tfstate.present /\ op'.kind \in {"delete", "recreate"})
      ]_vars

\* The desired alias changed from "a" to "b" on a record that had been read:
\* the old entity was deleted (the wait saw Deleted), the record is gone and
\* the Create of "b" comes next.
C10_Witness ==
    /\ op.kind = "recreate" /\ op.next.alias = "b"
    /\ last.op = "delete" /\ last.waited /\ last.diag = "ok"
    /\ last.lastObs = statusDeleted
    /\ remote[last.id].exists = "present" /\ remote[last.id].alias = "a"
    /\ baseline[last.id].present
    /\ tfstate = NoState

\* C11: after a successful Delete, no lookup of the id by
\* findOrganizationByID returns the entity.
C11_DestroyedIsNotFound ==
    (last.op = "delete" /\ last.diag = "ok")
        => \A resp \in DescribeResponses(remote, last.id) :
               findOrganizationByID(resp).err # NoErr

\* C12: in the creation wait a not-found poll keeps the wait polling while
\* the consecutive count is at most NotFoundChecks, the count is zero after
\* any poll that found the entity, and not-found ends the wait exactly when
\* the count exceeds NotFoundChecks: a poll ends the wait on not-found only
\* from count NotFoundChecks, with a NotFoundError, and a NotFoundError has
\* no other origin.
C12_NotFoundTolerated ==
    /\ [](op.kind = "create"
           => /\ op.notfoundTick <= NotFoundChecks
              /\ op.prevObs \in Labels => op.notfoundTick = 0
              /\ op.prevObs = "notfound" => op.notfoundTick >= 1)
    /\ [][(op.kind = "create" /\ op'.kind # "create")
           => /\ last'.lastObs = "notfound"
                    => (op.notfoundTick = NotFoundChecks /\ last'.err = ErrNotFound)
              /\ last'.err = ErrNotFound
                    => (op.notfoundTick = NotFoundChecks /\ last'.lastObs = "notfound")
              /\ (op.prevObs = "notfound" /\ op.notfoundTick < NotFoundChecks)
                    => last'.err # ErrNotFound]_vars

\* The creation wait has seen NotFoundChecks not-found polls in a row and is
\* still polling.
C12_Witness ==
    /\ op.kind = "create"
    /\ op.prevObs = "notfound"
    /\ op.notfoundTick = NotFoundChecks

\* C13 (as stated): a creation wait that persistent not-found ends fails
\* with a TimeoutError.
C13_NotFoundEscalatesToTimeout ==
    (last.op = "create" /\ last.waited /\ last.lastObs = "notfound" /\ last.err # NoErr)
        => last.err = ErrTimeout

\* C13 (amended): the not-found retries are bounded, and a creation wait
\* that persistent not-found ends fails with a NotFoundError, which makes
\* Create fail and write no state; a TimeoutError ends the creation wait
\* only when its timeout elapses.
C13_NotFoundEndsWithNotFoundError ==
    /\ (last.op = "create" /\ last.waited /\ last.lastObs = "notfound")
           => (last.err = ErrNotFound /\ last.diag = "error" /\ tfstate = NoState)
    /\ (last.op = "create" /\ last.waited)
           => (last.err = ErrTimeout <=> last.lastObs = "timeout")

\* A Create has failed because its wait saw only not-found polls.
C13_Witness ==
    /\ last.op = "create"
    /\ last.waited
    /\ last.prevObs = "notfound"
    /\ last.lastObs = "notfound"
    /\ last.err = ErrNotFound

C15_RetriedCreateNotAppliedTwice ==
    [][(/\ op.kind = "idle"
        /\ last.op = "create" /\ last.call = "error" /\ last.id # 0
        /\ \/ op'.kind = "create" /\ op'.plan.alias = last.cfg.alias
                                  /\ op'.plan.description = last.cfg.description
           \/ last'.op = "create" /\ last'.cfg = last.cfg /\ last' # last)
       => remote' = remote]_vars

\* C16: a wait whose context is cancelled polls no further and returns the
\* context's error, and its handler reports failure: Create writes no state,
\* Delete keeps the record.
C16_CancelEndsWait ==
    (last.waited /\ last.lastObs = "cancel")
        => /\ op.kind = "idle"
           /\ last.err = ErrCanceled
           /\ last.diag = "error"
           /\ last.op = "create" => tfstate = NoState
           /\ last.op = "delete" => (tfstate.present /\ tfstate.id = last.id)

\* A deletion wait was cancelled while the organization was still Deleting.
C16_Witness ==
    /\ last.op = "delete"
    /\ last.waited
    /\ last.prevObs = statusDeleting
    /\ last.lastObs = "cancel"
    /\ tfstate.present

\* C17: the delete timeout is configurable like the create timeout: a
\* configuration may give either, and each wait is bounded by the timeout
\* the configuration gives for its phase, by the default when it gives none.
C17_TimeoutsConfigurable ==
    /\ SchemaAccepts(timeoutsCfg)
    /\ op.kind = "create"
           => op.timeout = IF timeoutsCfg["create"] # Null
                           THEN timeoutsCfg["create"] ELSE DefaultCreateTimeout
    /\ op.kind = "delete"
           => op.timeout = IF timeoutsCfg["delete"] # Null
                           THEN timeoutsCfg["delete"] ELSE DefaultDeleteTimeout

\* The errors a wait may return.
WaitErrors == {ErrTimeout, ErrAPI, ErrEmptyResult, ErrNotFound, ErrUnexpectedState, ErrCanceled}

\* C18: every wait terminates: whenever a creation or deletion wait is in
\* progress, whatever the back end answers, the wait eventually has
\* returned, with success or with one of the errors a wait may return.
C18_WaitsTerminate ==
    (op.kind \in {"create", "delete"})
        ~> (/\ op.kind \notin {"create", "delete"}
            /\ last.waited
            /\ last.err \in {NoErr} \cup WaitErrors)

\* A deletion wait that kept polling (Deleting, Deleting) was ended by its
\* timeout.
C18_Witness ==
    /\ last.op = "delete"
    /\ last.waited
    /\ last.prevObs = statusDeleting
    /\ last.lastObs = "timeout"
    /\ last.err = ErrTimeout

\* C19: a wait that finds the entity in a state outside its pending and
\* target sets aborts with an error: the creation wait on Deleting, Deleted
\* or any other label, the deletion wait on Creating or any other label,
\* and on nothing else with that error; Active and Deleting never end the
\* deletion wait, and a wait polls on only after a not-found poll or a
\* state of its pending or target set.
C19_UnexpectedStateAborts ==
    LET unexpectedC == Labels \ {statusCreating, statusActive}
        unexpectedD == Labels \ {statusDeleting, statusActive, statusDeleted}
    IN  /\ op.kind = "create"
               => op.prevObs \in {"none", "notfound", statusCreating, statusActive}
        /\ op.kind = "delete"
               => op.prevObs \in {"none", "notfound", statusDeleting, statusActive}
        /\ (last.op = "create" /\ last.waited)
               => /\ last.lastObs \in unexpectedC
                       <=> last.err = ErrUnexpectedState
                  /\ last.err = ErrUnexpectedState
                       => (last.diag = "error" /\ tfstate = NoState)
        /\ (last.op = "delete" /\ last.waited)
               => /\ last.lastObs \in unexpectedD
                       <=> last.err = ErrUnexpectedState
                  /\ last.err = ErrUnexpectedState
                       => (last.diag = "error" /\ tfstate.present)
                  /\ last.lastObs \notin {statusActive, statusDeleting}

\* A deletion wait polled on after Active and was aborted by Creating.
C19_Witness ==
    /\ last.op = "delete"
    /\ last.waited
    /\ last.prevObs = statusActive
    /\ last.lastObs = statusCreating
    /\ last.err = ErrUnexpectedState

\* C20: Delete ends without error exactly when DeleteOrganization answered
\* not-found, or succeeded and the deletion wait then observed Deleted; it
\* then removes the record. In every other case it ends with an error and
\* the record stays in state.
C20_DeleteOutcome ==
    last.op = "delete"
        => /\ last.diag \in {"ok", "error"}
           /\ last.diag = "ok"
                <=> \/ last.call = "ResourceNotFoundException"
                    \/ last.call = "ok" /\ last.waited /\ last.lastObs = statusDeleted
           /\ last.diag = "ok" => (last.err = NoErr /\ tfstate = NoState)
           /\ last.diag = "error"
                => (last.err # NoErr /\ tfstate.present /\ tfstate.id = last.id)

\* A Delete whose request succeeded failed in its wait, which never saw
\* Deleted but only not-found, and the record is still in state.
C20_Witness ==
    /\ last.op = "delete"
    /\ last.call = "ok"
    /\ last.waited
    /\ last.lastObs = "notfound"
    /\ last.diag = "error"
    /\ tfstate.present

\* C21: Create performs no cleanup on failure: the step in which a creation
\* wait ends with an error, after CreateOrganization had succeeded, leaves
\* the back end's store as it is, sends no DeleteOrganization request and
\* leaves the state empty, so the id CreateOrganization assigned is in no
\* local record.
C21_NoCleanupOnFailure ==
    /\ []((last.op = "create" /\ last.waited /\ last.diag = "error")
            => /\ last.call = "ok"
               /\ last.id \in Ids
               /\ ~last.deleteCall
               /\ tfstate = NoState
               /\ op.plan.id # last.id)
    /\ [][(op.kind = "create" /\ op'.kind # "create" /\ last'.diag = "error")
            => (remote' = remote /\ ~tfstate'.present)]_vars

\* A Create whose wait timed out has left its organization in the back end
\* and no record of it in state.
C21_Witness ==
    /\ last.op = "create"
    /\ last.waited
    /\ last.err = ErrTimeout
    /\ last.id \in Ids
    /\ remote[last.id].exists = "present"
    /\ tfstate = NoState

====
